---- MODULE Spec2Model ----
(***************************************************************************)
(* A model of blockchain.py: outputs, inputs, transactions, the Merkle     *)
(* tree, blocks (hashing, mining, validation) and the Blockchain (extend,  *)
(* getTip, heights, cumulative work, UTXO snapshots).                      *)
(*                                                                         *)
(* Python's None is modelled per field: an optional list carries an        *)
(* "...IsNone" flag, an optional integer is NoneInt.  SHA-256 is modelled  *)
(* by deterministic mixing functions into 0..HashSpace-1; the chain only   *)
(* ever receives blocks whose hash does not collide with a different       *)
(* stored block (collision resistance).  Targets are powers of two, for    *)
(* which Python's float division genesisTarget / target and the sums of    *)
(* its results are exact, so work is kept as an exact fixed-point number.  *)
(***************************************************************************)
EXTENDS Integers, Sequences, FiniteSets, TLC

VARIABLES
    \* Blockchain (self.* of class Blockchain)
    genesisTarget, blocks, block_heights, cumulative_work, utxo_sets,
    \* the caller of Blockchain.extend: where it is, and what the last call got
    pc, extResult, extHash,
    \* one call of Block.validate: its arguments and its result
    vBlock, vUtxos, vResult,
    \* one call of Block.mine: the block, the argument and the position in mine
    mBlock, mTgt, mPc,
    \* one call of a method without side effects: the method with its arguments, and
    \* what it returned
    call, ret,
    \* one branch of a chain: the transaction lists of its blocks after genesis, in
    \* order, and the UTXO snapshot of its last block
    branch, snapshot

chainVars == <<genesisTarget, blocks, block_heights, cumulative_work, utxo_sets,
               pc, extResult, extHash>>
valVars == <<vBlock, vUtxos, vResult>>
mineVars == <<mBlock, mTgt, mPc>>
callVars == <<call, ret>>
branchVars == <<branch, snapshot>>
vars == <<chainVars, valVars, mineVars, callVars, branchVars>>

----------------------------------------------------------------------------
(* Bounds *)

\* width of a hash in bits (256 in the program)
HashBits == 4
\* longest transaction list of a block handed to Block.validate
MaxTxs == 3
\* longest transaction list of the block that produced the parent snapshot
MaxParentTxs == 2
\* number of blocks a chain accepts after genesis
MaxBlocks == 2

HashSpace == 2 ^ HashBits
\* mine's loop is unbounded; the model stops counting here
MaxNonce == 2 * HashSpace

\* None, for an integer field (prior_block_hash, target, timestamp)
NoneInt == 0 - 1

\* maxMintCoinsPerTx, the constructor's argument
maxMintCoinsPerTx == 100

----------------------------------------------------------------------------
(* Output, Input, Transaction *)

Output(constraint, amount) == [constraint |-> constraint, amount |-> amount]

Input(txHash, txIdx, satisfier) ==
    [txHash |-> txHash, txIdx |-> txIdx, satisfier |-> satisfier]

\* Transaction(inputs, outputs); inputs = None is Transaction(None, outputs)
Transaction(inputs, outputs) ==
    [inputs |-> inputs, inputsIsNone |-> FALSE,
     outputs |-> outputs, outputsIsNone |-> FALSE]

MintTransaction(outputs) ==
    [inputs |-> <<>>, inputsIsNone |-> TRUE,
     outputs |-> outputs, outputsIsNone |-> FALSE]

\* Transaction(None, None)
BareTransaction ==
    [inputs |-> <<>>, inputsIsNone |-> TRUE,
     outputs |-> <<>>, outputsIsNone |-> TRUE]

\* The constraint scripts: what the lambda returns on a satisfier, or "raise".
\*   "always": lambda x: True
\*   "sum100": lambda x: x[0] + x[1] == 100
\*   "first" : lambda x: x[0]
CallConstraint(constraint, satisfier) ==
    CASE constraint = "always" -> "True"
      [] constraint = "sum100" ->
            IF Len(satisfier) < 2 THEN "raise"
            ELSE IF satisfier[1] + satisfier[2] = 100 THEN "True" ELSE "False"
      [] constraint = "first" ->
            IF Len(satisfier) < 1 THEN "raise"
            ELSE IF satisfier[1] # 0 THEN "nonzero int" ELSE "zero int"

\* Python truthiness of a value returned by can_be_spent
Truthy(value) == value \in {"True", "nonzero int"}

\* Output.can_be_spent: the constraint's own return value, False on an exception
can_be_spent(output, satisfier) ==
    IF output.constraint = "None" THEN "True"
    ELSE LET r == CallConstraint(output.constraint, satisfier)
         IN  IF r = "raise" THEN "False" ELSE r

\* `if self.outputs` / `if self.inputs`: neither None nor empty
OutputsTruthy(tx) == ~tx.outputsIsNone /\ Len(tx.outputs) > 0
InputsTruthy(tx) == ~tx.inputsIsNone /\ Len(tx.inputs) > 0

RECURSIVE SumAmounts(_)
SumAmounts(outputs) ==
    IF Len(outputs) = 0 THEN 0
    ELSE outputs[1].amount + SumAmounts(Tail(outputs))

\* validateMint with < for <=: minting exactly the cap is refused
validateMintBelowCap(tx, maxCoinsToCreate) ==
    IF ~tx.inputsIsNone THEN FALSE
    ELSE IF OutputsTruthy(tx) THEN SumAmounts(tx.outputs) < maxCoinsToCreate
    ELSE FALSE

\* Transaction.validateMint
validateMint(tx, maxCoinsToCreate) ==
    IF ~tx.inputsIsNone THEN FALSE
    ELSE IF OutputsTruthy(tx) THEN SumAmounts(tx.outputs) <= maxCoinsToCreate
    ELSE FALSE

RECURSIVE InputLoop(_, _, _, _)
\* `for inp in self.inputs` of Transaction.validate, from input k on with the
\* input_sum so far: the final input_sum, or NoneInt where the loop returns False
InputLoop(inputs, k, unspentOutputDict, input_sum) ==
    IF k > Len(inputs) THEN input_sum
    ELSE LET utxo_key == <<inputs[k].txHash, inputs[k].txIdx>>
         IN  IF utxo_key \notin DOMAIN unspentOutputDict THEN NoneInt
             ELSE LET utxo == unspentOutputDict[utxo_key]
                  IN  IF ~Truthy(can_be_spent(utxo, inputs[k].satisfier)) THEN NoneInt
                      ELSE InputLoop(inputs, k + 1, unspentOutputDict,
                                     input_sum + utxo.amount)

\* Transaction.validate(unspentOutputDict)
TxValidate(tx, unspentOutputDict) ==
    IF ~InputsTruthy(tx) THEN TRUE
    ELSE IF ~OutputsTruthy(tx) THEN FALSE
    ELSE LET input_sum == InputLoop(tx.inputs, 1, unspentOutputDict, 0)
         IN  IF input_sum = NoneInt THEN FALSE
             ELSE input_sum >= SumAmounts(tx.outputs)

----------------------------------------------------------------------------
(* The transactions the model draws from.  A transaction's hash is its      *)
(* position in TxPool: distinct contents, distinct hashes.                  *)

\* mints exactly the cap, in two outputs
TxMint == MintTransaction(<<Output("sum100", 60), Output("None", 40)>>)
\* mints one coin over the cap
TxMintOver == MintTransaction(<<Output("None", 101)>>)
\* a coinbase without outputs
TxMintNothing == BareTransaction
\* an empty, non-absent input list and a positive output
TxFromNothing == Transaction(<<>>, <<Output("None", 50)>>)
\* spends output 0 of TxFromNothing (hash 4): 50 in, 50 out
TxSpendFromNothing == Transaction(<<Input(4, 0, <<>>)>>, <<Output("None", 50)>>)
\* spends output 0 of TxMint (hash 1): 60 in, 70 out
TxInflate == Transaction(<<Input(1, 0, <<40, 60>>)>>, <<Output("None", 70)>>)
\* references output 1 of TxMint twice: 40 in (once), 40 out
TxTwice == Transaction(<<Input(1, 1, <<>>), Input(1, 1, <<>>)>>,
                       <<Output("None", 40)>>)

TxPool == <<TxMint, TxMintOver, TxMintNothing, TxFromNothing,
            TxSpendFromNothing, TxInflate, TxTwice>>

\* Transaction.getHash: sha256 of the serialized (inputs, outputs, data)
TxGetHash(tx) == CHOOSE i \in DOMAIN TxPool : TxPool[i] = tx

----------------------------------------------------------------------------
(* HashableMerkleTree *)

\* sha256(left.to_bytes(32) + right.to_bytes(32)) as an integer
Sha256Pair(left, right) == (31 * left + 17 * right + 7) % HashSpace

RECURSIVE NextLevelPaddingWithCopy(_, _)
\* NextLevel pairing an unpaired last hash with a copy of itself
NextLevelPaddingWithCopy(current_level, i) ==
    IF i > Len(current_level) THEN <<>>
    ELSE LET left == current_level[i]
             right == IF i + 1 <= Len(current_level) THEN current_level[i + 1] ELSE left
         IN  <<Sha256Pair(left, right)>> \o NextLevelPaddingWithCopy(current_level, i + 2)

RECURSIVE NextLevel(_, _)
\* the inner for loop of calcMerkleRoot, from position i (1-based, odd)
NextLevel(current_level, i) ==
    IF i > Len(current_level) THEN <<>>
    ELSE LET left == current_level[i]
             right == IF i + 1 <= Len(current_level) THEN current_level[i + 1] ELSE 0
         IN  <<Sha256Pair(left, right)>> \o NextLevel(current_level, i + 2)

RECURSIVE MerkleLevels(_)
\* the while loop of calcMerkleRoot
MerkleLevels(current_level) ==
    IF Len(current_level) > 1 THEN MerkleLevels(NextLevel(current_level, 1))
    ELSE current_level[1]

\* HashableMerkleTree.calcMerkleRoot over hashableList
calcMerkleRoot(hashableList) ==
    IF Len(hashableList) = 0 THEN 0 ELSE MerkleLevels(hashableList)

\* HashableMerkleTree.__init__: the hashes of the objects
HashableList(objects) == [i \in DOMAIN objects |-> TxGetHash(objects[i])]

----------------------------------------------------------------------------
(* Block *)

\* Block() followed by setPriorBlockHash, setContents, setTarget and a nonce
Block(prior, txs, target, nonce) ==
    [prior_block_hash |-> prior, transactions |-> txs, timestamp |-> NoneInt,
     target |-> target, nonce |-> nonce]

\* sha256 of str(prior) + str(root) + str(timestamp) + str(nonce) + str(target)
\* (never 0, the parent hash that marks genesis)
Sha256Header(prior, root, timestamp, nonce, target) ==
    1 + ((5 * (prior + 1) + 3 * root + 13 * (timestamp + 1) + 7 * nonce
            + 11 * (target + 1) + 2) % (HashSpace - 1))

\* Block.getHash
getHash(block) ==
    Sha256Header(block.prior_block_hash,
                 calcMerkleRoot(HashableList(block.transactions)),
                 block.timestamp, block.nonce, block.target)

\* the empty dict
EmptyDict == [key \in {} |-> Output("None", 0)]

\* Block.validate's "return None"
Invalid == [valid |-> FALSE, utxos |-> EmptyDict]

\* `for idx, out in enumerate(tx.outputs): current_utxos[(tx_hash, idx)] = out`
InsertOutputs(current_utxos, tx) ==
    IF ~OutputsTruthy(tx) THEN current_utxos
    ELSE LET tx_hash == TxGetHash(tx)
             new == {<<tx_hash, idx>> : idx \in 0..(Len(tx.outputs) - 1)}
         IN  [key \in (DOMAIN current_utxos) \cup new |->
                 IF key \in new THEN tx.outputs[key[2] + 1] ELSE current_utxos[key]]

RECURSIVE CheckInputsForgettingSpent(_, _, _, _)
\* CheckInputs without the test `utxo_key in spent`
CheckInputsForgettingSpent(inputs, k, current_utxos, spent) ==
    IF k > Len(inputs) THEN [ok |-> TRUE, spent |-> spent]
    ELSE LET utxo_key == <<inputs[k].txHash, inputs[k].txIdx>>
         IN  IF utxo_key \notin DOMAIN current_utxos
             THEN [ok |-> FALSE, spent |-> spent]
             ELSE IF ~Truthy(can_be_spent(current_utxos[utxo_key], inputs[k].satisfier))
             THEN [ok |-> FALSE, spent |-> spent]
             ELSE CheckInputsForgettingSpent(inputs, k + 1, current_utxos,
                                             spent \cup {utxo_key})

RECURSIVE CheckInputs(_, _, _, _)
\* `for inp in tx.inputs` of Block.validate, from input k on
CheckInputs(inputs, k, current_utxos, spent) ==
    IF k > Len(inputs) THEN [ok |-> TRUE, spent |-> spent]
    ELSE LET utxo_key == <<inputs[k].txHash, inputs[k].txIdx>>
         IN  IF utxo_key \in spent \/ utxo_key \notin DOMAIN current_utxos
             THEN [ok |-> FALSE, spent |-> spent]
             ELSE IF ~Truthy(can_be_spent(current_utxos[utxo_key], inputs[k].satisfier))
             THEN [ok |-> FALSE, spent |-> spent]
             ELSE CheckInputs(inputs, k + 1, current_utxos, spent \cup {utxo_key})

\* the test Block.validate makes of the transaction at index 0
FirstTxRejected(tx, maxMint) ==
    ~tx.inputsIsNone \/ (OutputsTruthy(tx) /\ ~validateMint(tx, maxMint))

RECURSIVE TxLoop(_, _, _, _, _)
\* `for idx, tx in enumerate(transactions)` of Block.validate, from index i
\* (1-based) on, and the deletion of the spent keys after the loop
TxLoop(transactions, i, current_utxos, spent, maxMint) ==
    IF i > Len(transactions)
    THEN [valid |-> TRUE,
          utxos |-> [key \in (DOMAIN current_utxos) \ spent |-> current_utxos[key]]]
    ELSE LET tx == transactions[i]
         IN  IF i = 1
             THEN IF FirstTxRejected(tx, maxMint) THEN Invalid
                  ELSE TxLoop(transactions, i + 1, InsertOutputs(current_utxos, tx),
                              spent, maxMint)
             ELSE IF tx.inputsIsNone THEN Invalid
                  ELSE LET r == CheckInputs(tx.inputs, 1, current_utxos, spent)
                       IN  IF ~r.ok THEN Invalid
                           ELSE TxLoop(transactions, i + 1,
                                       InsertOutputs(current_utxos, tx), r.spent, maxMint)

\* PowRejected with > for >=: a hash equal to the target passes
PowRejectedOnlyAbove(block) == getHash(block) > block.target

\* `if self.getHash() >= self.target: return None`
PowRejected(block) == getHash(block) >= block.target

RECURSIVE InsertAllOutputs(_, _, _)
\* the outputs of the transactions from index i on, written to current_utxos
InsertAllOutputs(transactions, i, current_utxos) ==
    IF i > Len(transactions) THEN current_utxos
    ELSE InsertAllOutputs(transactions, i + 1,
                          InsertOutputs(current_utxos, transactions[i]))

\* validate checking inputs against a view that already holds the outputs of
\* every transaction of the block
validateAgainstWholeBlock(block, unspentOutputs, maxMint) ==
    IF PowRejected(block) THEN Invalid
    ELSE IF Len(block.transactions) = 0
    THEN [valid |-> TRUE, utxos |-> unspentOutputs]
    ELSE TxLoop(block.transactions, 1,
                InsertAllOutputs(block.transactions, 1, unspentOutputs), {}, maxMint)

\* Block.validate(unspentOutputs, maxMint), for a block whose target is set
validate(block, unspentOutputs, maxMint) ==
    IF PowRejected(block) THEN Invalid
    ELSE IF Len(block.transactions) = 0
    THEN [valid |-> TRUE, utxos |-> unspentOutputs]
    ELSE TxLoop(block.transactions, 1, unspentOutputs, {}, maxMint)

----------------------------------------------------------------------------
(* Block.mine *)

RECURSIVE MineLoop(_, _)
\* `while self.getHash() >= tgt: self.nonce += 1`
MineLoop(block, tgt) ==
    IF getHash(block) >= tgt THEN MineLoop([block EXCEPT !.nonce = @ + 1], tgt)
    ELSE block

\* Block.mine(tgt), for a target some nonce meets: the block when mine returns
mine(block, tgt) == MineLoop([block EXCEPT !.target = tgt, !.nonce = 0], tgt)

----------------------------------------------------------------------------
(* Blockchain *)

\* work is kept in units of 1/WorkDen: genesisTarget / target is a multiple of
\* it for every target of the model
WorkDen == 2 * HashSpace

\* float('inf')
Infinity == WorkDen * WorkDen * WorkDen

\* Blockchain.getWork, for a chain built with genesis target g
WorkOf(g, target) == IF target = 0 THEN Infinity ELSE (g * WorkDen) \div target

\* Blockchain.getWork
getWork(target) == WorkOf(genesisTarget, target)

\* cumulative_work is a dict read in insertion order: a sequence of <<key, value>>
DictKeys(d) == {d[i][1] : i \in DOMAIN d}
DictGet(d, key) == d[CHOOSE i \in DOMAIN d : d[i][1] = key][2]
\* d[key] = value: an existing key keeps its place
DictSet(d, key, value) ==
    IF key \in DictKeys(d)
    THEN [i \in DOMAIN d |-> IF d[i][1] = key THEN <<key, value>> ELSE d[i]]
    ELSE Append(d, <<key, value>>)

\* Blockchain.getCumulativeWork: the work, or None
getCumulativeWork(blkHash) ==
    IF blkHash \in DictKeys(cumulative_work) THEN DictGet(cumulative_work, blkHash)
    ELSE NoneInt

\* Blockchain.getBlocksAtHeight: the hashes block_heights lists at the height (the
\* method returns the blocks stored under them, in this order)
getBlocksAtHeight(height) ==
    IF height \in DOMAIN block_heights THEN block_heights[height] ELSE <<>>

RECURSIVE TipLoopKeepingFirstMax(_, _, _)
\* TipLoop without `max_work = work`: every block beats the initial -1
TipLoopKeepingFirstMax(i, max_work, tip) ==
    IF i > Len(cumulative_work) THEN tip
    ELSE IF cumulative_work[i][2] > max_work
         THEN TipLoopKeepingFirstMax(i + 1, max_work, cumulative_work[i][1])
         ELSE TipLoopKeepingFirstMax(i + 1, max_work, tip)

RECURSIVE TipLoopTakingLastMax(_, _, _)
\* TipLoop with >= for >: a later block of equal work replaces the tip
TipLoopTakingLastMax(i, max_work, tip) ==
    IF i > Len(cumulative_work) THEN tip
    ELSE IF cumulative_work[i][2] >= max_work
         THEN TipLoopTakingLastMax(i + 1, cumulative_work[i][2], cumulative_work[i][1])
         ELSE TipLoopTakingLastMax(i + 1, max_work, tip)

RECURSIVE TipLoop(_, _, _)
\* `for block_hash, work in self.cumulative_work.items()` of getTip, from item i
TipLoop(i, max_work, tip) ==
    IF i > Len(cumulative_work) THEN tip
    ELSE IF cumulative_work[i][2] > max_work
         THEN TipLoop(i + 1, cumulative_work[i][2], cumulative_work[i][1])
         ELSE TipLoop(i + 1, max_work, tip)

\* getTip that never raises max_work
getTipLastAboveInitial == TipLoopKeepingFirstMax(1, 0 - WorkDen, NoneInt)

\* Blockchain.getTip: the hash of the block it returns (None on an empty dict)
getTip == TipLoop(1, 0 - WorkDen, NoneInt)

\* the chain as extend leaves it
ChainState(result, b, h, w, u) ==
    [result |-> result, blocks |-> b, block_heights |-> h,
     cumulative_work |-> w, utxo_sets |-> u]

\* a rejection that has already stored the block under its hash
RejectStoringBlock(block, result) ==
    ChainState(result, [hh \in (DOMAIN blocks) \cup {getHash(block)} |->
                           IF hh = getHash(block) THEN block ELSE blocks[hh]],
               block_heights, cumulative_work, utxo_sets)

\* the `return False` of extend (and the exception validate raises on a target
\* of None): nothing has been written
Reject(block, result) ==
    ChainState(result, blocks, block_heights, cumulative_work, utxo_sets)

\* parent_height = next(h for h, blocks in self.block_heights.items()
\*                      if prior_hash in blocks)
ParentHeight(prior_hash) ==
    LET found == {h \in DOMAIN block_heights :
                     \E i \in DOMAIN block_heights[h] : block_heights[h][i] = prior_hash}
    IN  CHOOSE h \in found : \A h2 \in found : h <= h2

\* a new height equal to the parent's
NewHeightOfParent(prior_hash) == ParentHeight(prior_hash)

\* height = parent_height + 1
NewHeight(prior_hash) == ParentHeight(prior_hash) + 1

\* the work of the block alone
NewCumulativeWorkOfBlockAlone(prior_hash, block) == getWork(block.target)

\* self.cumulative_work[prior_hash] + self.getWork(block.getTarget())
NewCumulativeWork(prior_hash, block) ==
    DictGet(cumulative_work, prior_hash) + getWork(block.target)

\* Blockchain.extend(block): the result and the chain it leaves
extend(block) ==
    LET prior_hash == block.prior_block_hash
    IN  IF prior_hash = NoneInt THEN Reject(block, "False")
        ELSE IF prior_hash \notin DOMAIN blocks THEN Reject(block, "False")
        ELSE IF prior_hash \notin DOMAIN utxo_sets THEN Reject(block, "False")
        ELSE IF block.target = NoneInt THEN Reject(block, "TypeError")
        ELSE LET new_utxos == validate(block, utxo_sets[prior_hash], maxMintCoinsPerTx)
                 block_hash == getHash(block)
                 height == NewHeight(prior_hash)
             IN  IF ~new_utxos.valid THEN Reject(block, "False")
                 ELSE ChainState("True",
                        [hh \in (DOMAIN blocks) \cup {block_hash} |->
                            IF hh = block_hash THEN block ELSE blocks[hh]],
                        [k \in (DOMAIN block_heights) \cup {height} |->
                            IF k = height
                            THEN Append(IF k \in DOMAIN block_heights
                                        THEN block_heights[k] ELSE <<>>, block_hash)
                            ELSE block_heights[k]],
                        DictSet(cumulative_work, block_hash,
                                NewCumulativeWork(prior_hash, block)),
                        [hh \in (DOMAIN utxo_sets) \cup {block_hash} |->
                            IF hh = block_hash THEN new_utxos.utxos ELSE utxo_sets[hh]])

\* genesis targets of the chains built
GenesisTargets == {HashSpace \div 2, HashSpace}

\* the genesis block of Blockchain.__init__
Genesis(g) == mine(Block(0, <<>>, g, 0), g)

\* Blockchain.__init__(genesisTarget, maxMintCoinsPerTx)
ChainInit ==
    /\ genesisTarget \in GenesisTargets
    /\ LET genesis == Genesis(genesisTarget)
           genesis_hash == getHash(genesis)
       IN  /\ blocks = [hh \in {genesis_hash} |-> genesis]
           /\ block_heights = [k \in {0} |-> <<genesis_hash>>]
           /\ cumulative_work = << <<genesis_hash, WorkOf(genesisTarget, genesisTarget)>> >>
           /\ utxo_sets = [hh \in {genesis_hash} |->
                             validate(genesis, EmptyDict, maxMintCoinsPerTx).utxos]
    /\ pc = "idle"
    /\ extResult = "none"
    /\ extHash = NoneInt

\* the transaction lists of the blocks submitted to a chain
ChainTxLists == {<<>>, <<TxMint>>, <<TxMintOver>>}

\* the targets of the blocks submitted to a chain (None: never set)
ChainTargets ==
    {NoneInt, 0, HashSpace \div 4, HashSpace \div 2, HashSpace, 2 * HashSpace}

\* a hash under which the chain stores no block
UnknownHash == CHOOSE hh \in 0..(HashSpace - 1) : hh \notin DOMAIN blocks

\* the blocks a caller submits: on a stored parent, an unknown one or none; with
\* the target set only (nonce 0), or mined against it
SubmittedBlocks ==
    LET priors == (DOMAIN blocks) \cup {UnknownHash, NoneInt}
        unmined == {Block(prior, txs, target, 0) :
                       prior \in priors, txs \in ChainTxLists, target \in ChainTargets}
    IN  unmined \cup {mine(b, b.target) : b \in {u \in unmined : u.target > 0}}

\* the number of successful extend calls so far
RECURSIVE CountEntries(_, _)
CountEntries(heights, ks) ==
    IF ks = {} THEN 0
    ELSE LET k == CHOOSE k \in ks : TRUE
         IN  Len(heights[k]) + CountEntries(heights, ks \ {k})

Accepted == CountEntries(block_heights, DOMAIN block_heights) - 1

\* a call of extend with a block whose hash no different stored block has
Extend(block) ==
    /\ pc = "idle"
    /\ Accepted < MaxBlocks
    /\ getHash(block) \in DOMAIN blocks => blocks[getHash(block)] = block
    /\ LET after == extend(block)
       IN  /\ blocks' = after.blocks
           /\ block_heights' = after.block_heights
           /\ cumulative_work' = after.cumulative_work
           /\ utxo_sets' = after.utxo_sets
           /\ extResult' = after.result
    /\ extHash' = getHash(block)
    /\ pc' = "returned"
    /\ UNCHANGED <<genesisTarget, valVars, mineVars, callVars, branchVars>>

\* the caller has taken the result and is ready for the next call
Return ==
    /\ pc = "returned"
    /\ pc' = "idle"
    /\ extResult' = "none"
    /\ extHash' = NoneInt
    /\ UNCHANGED <<genesisTarget, blocks, block_heights, cumulative_work, utxo_sets,
                   valVars, mineVars, callVars, branchVars>>

----------------------------------------------------------------------------
(* One call of Block.validate on a parent snapshot *)

SeqsUpTo(S, n) == UNION {[1..k -> S] : k \in 0..n}

TxPoolSet == {TxPool[i] : i \in DOMAIN TxPool}

\* targets of the blocks handed to validate: none passes, about half pass, all pass
ValTargets == {0, HashSpace \div 2, HashSpace}

\* the blocks handed to validate: any transaction list, children of block 0
ValBlocks ==
    {Block(0, txs, target, 0) : txs \in SeqsUpTo(TxPoolSet, MaxTxs), target \in ValTargets}

\* the snapshots a parent can have: what validate returned for a block accepted
\* on the genesis snapshot {}
ParentSnapshots ==
    {validate(Block(0, txs, 2 * HashSpace, 0), EmptyDict, maxMintCoinsPerTx).utxos :
        txs \in SeqsUpTo(TxPoolSet, MaxParentTxs)}

Pending == [status |-> "pending", utxos |-> EmptyDict]

ChainIdle ==
    /\ genesisTarget = 0
    /\ blocks = <<>>
    /\ block_heights = <<>>
    /\ cumulative_work = <<>>
    /\ utxo_sets = <<>>
    /\ pc = "off"
    /\ extResult = "none"
    /\ extHash = NoneInt

ValIdle ==
    /\ vBlock = Block(NoneInt, <<>>, NoneInt, 0)
    /\ vUtxos = EmptyDict
    /\ vResult = Pending

MineIdle ==
    /\ mBlock = Block(NoneInt, <<>>, NoneInt, 0)
    /\ mTgt = 0
    /\ mPc = "off"

\* no call: the arguments of every method, at values that mean nothing
NoCall ==
    [fn |-> "none", leaves |-> <<>>, output |-> Output("None", 0),
     satisfier |-> <<>>, tx |-> BareTransaction, utxos |-> EmptyDict, maxMint |-> 0]

\* a call that has not returned; root is calcMerkleRoot's result, value the result
\* of can_be_spent, ok the boolean of validate and validateMint
NotReturned == [done |-> FALSE, root |-> 0, value |-> "none", ok |-> FALSE]

CallIdle ==
    /\ call = NoCall
    /\ ret = NotReturned

BranchIdle ==
    /\ branch = <<>>
    /\ snapshot = EmptyDict

ValInit ==
    /\ vBlock \in ValBlocks
    /\ vUtxos \in ParentSnapshots
    /\ vResult = Pending

\* new_utxos = block.validate(parent_utxos, self.maxMintCoinsPerTx)
CallValidate ==
    /\ vResult.status = "pending"
    /\ LET r == validate(vBlock, vUtxos, maxMintCoinsPerTx)
       IN  vResult' = [status |-> IF r.valid THEN "valid" ELSE "invalid",
                       utxos |-> r.utxos]
    /\ UNCHANGED <<vBlock, vUtxos, chainVars, mineVars, callVars, branchVars>>

InitValidate == ValInit /\ ChainIdle /\ MineIdle /\ CallIdle /\ BranchIdle

SpecValidate == InitValidate /\ [][CallValidate]_vars

Init == ChainInit /\ ValIdle /\ MineIdle /\ CallIdle /\ BranchIdle

Next == (\E block \in SubmittedBlocks : Extend(block)) \/ Return

Spec == Init /\ [][Next]_vars

----------------------------------------------------------------------------
(* Properties of Block.validate *)

vTxs == vBlock.transactions

\* (txHash, outputIndex) of input k of a transaction
InputKey(tx, k) == <<tx.inputs[k].txHash, tx.inputs[k].txIdx>>

\* the keys the outputs of a transaction are stored under
OutputKeys(tx) == {<<TxGetHash(tx), idx>> : idx \in 0..(Len(tx.outputs) - 1)}

\* the keys of the parent snapshot and of the outputs of the transactions before
\* position i (1-based) of the block
RunningKeys(txs, i, parent) ==
    (DOMAIN parent) \cup UNION {OutputKeys(txs[j]) : j \in 1..(i - 1)}

RECURSIVE RunningView(_, _, _)
\* the parent snapshot with the outputs of the first n transactions written to it
RunningView(txs, n, parent) ==
    IF n = 0 THEN parent
    ELSE LET before == RunningView(txs, n - 1, parent)
             made == OutputKeys(txs[n])
         IN  [key \in (DOMAIN before) \cup made |->
                 IF key \in made THEN txs[n].outputs[key[2] + 1] ELSE before[key]]

RECURSIVE InputTotal(_, _, _)
\* the total amount of the entries of `view` that inputs k.. of tx reference
InputTotal(tx, k, view) ==
    IF k > Len(tx.inputs) THEN 0
    ELSE (IF InputKey(tx, k) \in DOMAIN view THEN view[InputKey(tx, k)].amount ELSE 0)
         + InputTotal(tx, k + 1, view)

\* transaction i (1-based, not the first) of the block pays out more than the
\* entries its inputs reference hold
CreatesCoins(txs, i, parent) ==
    SumAmounts(txs[i].outputs) > InputTotal(txs[i], 1, RunningView(txs, i - 1, parent))

\* C1: a block with a transaction after the first whose outputs exceed the
\* amounts its inputs reference is invalid.
C1_Conservation ==
    (vResult.status # "pending"
        /\ \E i \in 2..Len(vTxs) : CreatesCoins(vTxs, i, vUtxos))
    => vResult.status = "invalid"

\* C2: a block with transactions is valid only if its first transaction has no
\* inputs (None), has outputs and mints at most maxMintCoinsPerTx.
C2_CoinbaseRule ==
    (vResult.status = "valid" /\ Len(vTxs) >= 1)
    => /\ vTxs[1].inputsIsNone
       /\ ~vTxs[1].outputsIsNone
       /\ Len(vTxs[1].outputs) > 0
       /\ SumAmounts(vTxs[1].outputs) <= maxMintCoinsPerTx

\* input k of transaction i references a key that an earlier input of the block
\* (of an earlier transaction, or of the same one) references too
AlreadyReferenced(txs, i, k) ==
    \/ \E k2 \in 1..(k - 1) : InputKey(txs[i], k2) = InputKey(txs[i], k)
    \/ \E j \in 1..(i - 1) : \E k2 \in 1..Len(txs[j].inputs) :
           InputKey(txs[j], k2) = InputKey(txs[i], k)

\* some input after the first transaction references a key that is not there, or
\* one already referenced in this block
BadReference(txs, parent) ==
    \E i \in 2..Len(txs) : \E k \in 1..Len(txs[i].inputs) :
        \/ InputKey(txs[i], k) \notin RunningKeys(txs, i, parent)
        \/ AlreadyReferenced(txs, i, k)

\* C3: a block in which an input of a transaction after the first references a
\* key absent from the running view, or a key an earlier input of the block
\* references, is invalid.
C3_NoDoubleSpend ==
    (vResult.status # "pending" /\ BadReference(vTxs, vUtxos))
    => vResult.status = "invalid"

\* C3's case: the proof of work and the first transaction pass, every input names
\* a key that exists, one key is referenced twice, and the block was rejected
C3_Witness ==
    /\ vResult.status = "invalid"
    /\ ~PowRejected(vBlock)
    /\ Len(vTxs) >= 2
    /\ ~FirstTxRejected(vTxs[1], maxMintCoinsPerTx)
    /\ \A i \in 2..Len(vTxs) :
          /\ ~vTxs[i].inputsIsNone
          /\ \A k \in 1..Len(vTxs[i].inputs) :
                InputKey(vTxs[i], k) \in RunningKeys(vTxs, i, vUtxos)
    /\ \E i \in 2..Len(vTxs) : \E k \in 1..Len(vTxs[i].inputs) :
          AlreadyReferenced(vTxs, i, k)

\* the mapping without the keys the inputs of tx reference
RemoveInputs(utxos, tx) ==
    [key \in (DOMAIN utxos) \ {InputKey(tx, k) : k \in 1..Len(tx.inputs)} |-> utxos[key]]

RECURSIVE ApplyInOrder(_, _, _)
\* the first n transactions applied in order to the parent mapping: for each, its
\* inputs' keys removed, then its outputs inserted
ApplyInOrder(txs, n, parent) ==
    IF n = 0 THEN parent
    ELSE LET before == RemoveInputs(ApplyInOrder(txs, n - 1, parent), txs[n])
             made == OutputKeys(txs[n])
         IN  [key \in (DOMAIN before) \cup made |->
                 IF key \in made THEN txs[n].outputs[key[2] + 1] ELSE before[key]]

\* C8: the mapping validate returns for an accepted block is the parent mapping
\* with the block's transactions applied in order (remove the inputs' keys, then
\* insert the outputs).
C8_AppliedInOrder ==
    vResult.status = "valid" => vResult.utxos = ApplyInOrder(vTxs, Len(vTxs), vUtxos)

\* C9: a block without transactions is valid exactly if hash() < target, and then
\* yields the parent mapping; a block with hash() >= target is invalid.
C9_EmptyBlockAndPow ==
    vResult.status # "pending"
    => /\ Len(vTxs) = 0 =>
            /\ (vResult.status = "valid") <=> (getHash(vBlock) < vBlock.target)
            /\ vResult.status = "valid" => vResult.utxos = vUtxos
       /\ getHash(vBlock) >= vBlock.target => vResult.status = "invalid"

\* C9's case: an empty block that meets its target, on a parent snapshot that holds
\* entries, was accepted
C9_Witness ==
    /\ vResult.status = "valid"
    /\ Len(vTxs) = 0
    /\ DOMAIN vUtxos # {}
    /\ getHash(vBlock) < vBlock.target

----------------------------------------------------------------------------
(* One call of Block.mine, step by step *)

\* the blocks mine is called on: new ones, and ones mined or given a target before
MineBlocks ==
    {Block(prior, txs, target, nonce) :
        prior \in {0, 5}, txs \in {<<>>, <<TxMint>>},
        target \in {NoneInt, HashSpace}, nonce \in 0..2}

\* the arguments of mine
MineTargets == {0, 1, 2, HashSpace \div 4, HashSpace \div 2, HashSpace, 2 * HashSpace}

MineInit ==
    /\ mBlock \in MineBlocks
    /\ mTgt \in MineTargets
    /\ mPc = "call"

\* mine's first two statements without `self.nonce = 0`
MineEnterKeepingNonce ==
    /\ mPc = "call"
    /\ mBlock' = [mBlock EXCEPT !.target = mTgt]
    /\ mPc' = "loop"
    /\ UNCHANGED <<mTgt, chainVars, valVars, callVars, branchVars>>

\* self.setTarget(tgt); self.nonce = 0
MineEnter ==
    /\ mPc = "call"
    /\ mBlock' = [mBlock EXCEPT !.target = mTgt, !.nonce = 0]
    /\ mPc' = "loop"
    /\ UNCHANGED <<mTgt, chainVars, valVars, callVars, branchVars>>

\* one turn of `while self.getHash() >= tgt: self.nonce += 1`
MineStep ==
    /\ mPc = "loop"
    /\ getHash(mBlock) >= mTgt
    /\ mBlock.nonce < MaxNonce
    /\ mBlock' = [mBlock EXCEPT !.nonce = @ + 1]
    /\ UNCHANGED <<mTgt, mPc, chainVars, valVars, callVars, branchVars>>

\* the loop condition is false: mine returns
MineReturn ==
    /\ mPc = "loop"
    /\ ~(getHash(mBlock) >= mTgt)
    /\ mPc' = "returned"
    /\ UNCHANGED <<mBlock, mTgt, chainVars, valVars, callVars, branchVars>>

InitMine == MineInit /\ ChainIdle /\ ValIdle /\ CallIdle /\ BranchIdle

NextMine == MineEnter \/ MineStep \/ MineReturn

SpecMine == InitMine /\ [][NextMine]_vars

----------------------------------------------------------------------------
(* Properties of the chain *)

Range(seq) == {seq[i] : i \in DOMAIN seq}

\* the hash of the genesis block
GenesisHash == block_heights[0][1]

\* the stored blocks other than genesis
Descendants == (DOMAIN blocks) \ {GenesisHash}

\* C4: a call of extend that returns False leaves blocks, heights, cumulative work
\* and snapshots as they were; a rejected block's hash that had no cumulative work
\* and no snapshot has none afterwards, and the tip is the same.
C4_RejectionChangesNothing ==
    [][extResult' = "False"
        => /\ UNCHANGED <<blocks, block_heights, cumulative_work, utxo_sets>>
           /\ extHash' \notin DictKeys(cumulative_work)
                 => extHash' \notin DictKeys(cumulative_work')
           /\ extHash' \notin DOMAIN utxo_sets => extHash' \notin DOMAIN utxo_sets'
           /\ getTip' = getTip]_vars

\* C4's case: extend has just rejected a block, on a chain that holds more than
\* genesis
C4_Witness ==
    /\ pc = "returned"
    /\ extResult = "False"
    /\ Descendants # {}
    /\ extHash \notin DOMAIN blocks

\* C5: getTip returns a stored block whose cumulative work is at least that of
\* every stored block, and the block of strictly greatest work when there is one.
C5_ForkChoice ==
    /\ getTip \in DOMAIN blocks
    /\ \A hh \in DOMAIN blocks : getCumulativeWork(getTip) >= getCumulativeWork(hh)
    /\ \A hh \in DOMAIN blocks :
          (\A h2 \in (DOMAIN blocks) \ {hh} :
               getCumulativeWork(hh) > getCumulativeWork(h2))
          => getTip = hh

\* C5's case: two blocks on the same parent, and the tip is the one of them with
\* more work than every other block
C5_Witness ==
    \E a \in Descendants : \E b \in Descendants \ {a} :
        /\ blocks[a].prior_block_hash = blocks[b].prior_block_hash
        /\ \A hh \in (DOMAIN blocks) \ {a} :
              getCumulativeWork(a) > getCumulativeWork(hh)
        /\ getTip = a

RECURSIVE HeightOf(_)
\* the number of parent links between a stored block and genesis
HeightOf(hh) ==
    IF hh = GenesisHash THEN 0 ELSE 1 + HeightOf(blocks[hh].prior_block_hash)

\* C7: genesis alone is at height 0, and getBlocksAtHeight(k) lists a stored block
\* exactly if k is the height of its parent plus one.
C7_Heights ==
    /\ getBlocksAtHeight(0) = <<GenesisHash>>
    /\ \A hh \in DOMAIN blocks : \A k \in 0..(MaxBlocks + 1) :
          (hh \in Range(getBlocksAtHeight(k))) <=> (k = HeightOf(hh))
    /\ DOMAIN block_heights \subseteq 0..MaxBlocks

\* C7's case: two different blocks on the same parent are listed at height 1
C7_Witness ==
    \E a \in Descendants : \E b \in Descendants \ {a} :
        /\ blocks[a].prior_block_hash = GenesisHash
        /\ blocks[b].prior_block_hash = GenesisHash
        /\ {a, b} \subseteq Range(getBlocksAtHeight(1))

----------------------------------------------------------------------------
(* Properties of Block.mine *)

\* the hash the block would have with the nonce n
HashWithNonce(block, n) == getHash([block EXCEPT !.nonce = n])

\* C10: mine sets the target and tries the nonces 0, 1, 2, ... in order; it
\* returns only with hash() < target, at the smallest such nonce, and with a block
\* that passes validate's proof-of-work check; if no nonce gives hash() < target
\* it does not return.
C10_MinePostcondition ==
    /\ mPc \in {"loop", "returned"} =>
          /\ mBlock.target = mTgt
          /\ \A n \in 0..(mBlock.nonce - 1) : HashWithNonce(mBlock, n) >= mTgt
    /\ mPc = "returned" =>
          /\ getHash(mBlock) < mTgt
          /\ ~PowRejected(mBlock)
    /\ (\A n \in 0..MaxNonce : HashWithNonce(mBlock, n) >= mTgt) => mPc # "returned"

\* C10's case: mine has returned after trying several nonces
C10_Witness ==
    /\ mPc = "returned"
    /\ mBlock.nonce >= 2
    /\ getHash(mBlock) < mTgt

----------------------------------------------------------------------------
(* Calls of the methods without side effects: calcMerkleRoot, can_be_spent, *)
(* Transaction.validate and validateMint, each on arguments drawn in Init.  *)

\* longest list of leaves handed to HashableMerkleTree
MaxLeaves == 4

\* the hashes a leaf can have: those of the transactions of TxPool
LeafHashes == DOMAIN TxPool

MerkleCalls ==
    {[NoCall EXCEPT !.fn = "calcMerkleRoot", !.leaves = leaves] :
        leaves \in SeqsUpTo(LeafHashes, MaxLeaves)}

Constraints == {"None", "always", "sum100", "first"}

\* satisfiers: too short for every script, summing to 100 with a non-zero first
\* element, not summing to 100, summing to 100 with first element 0
Satisfiers == {<<>>, <<40, 60>>, <<40, 50>>, <<0, 100>>}

SpendCalls ==
    {[NoCall EXCEPT !.fn = "can_be_spent", !.output = Output(constraint, 40),
                    !.satisfier = satisfier] :
        constraint \in Constraints, satisfier \in Satisfiers}

\* spends output (1, 0) with the satisfier [40, 60]: 50 out
TxSpendGuarded == Transaction(<<Input(1, 0, <<40, 60>>)>>, <<Output("None", 50)>>)
\* spends output (1, 1) and creates nothing
TxBurn == Transaction(<<Input(1, 1, <<>>)>>, <<>>)
\* references output (1, 1), worth 40, twice: 80 out
TxTwiceOver == Transaction(<<Input(1, 1, <<>>), Input(1, 1, <<>>)>>,
                           <<Output("None", 80)>>)
\* a coinbase of one coin under the cap
TxMintUnder == MintTransaction(<<Output("None", 99)>>)

CallTxs == TxPoolSet \cup {TxSpendGuarded, TxBurn, TxTwiceOver, TxMintUnder}

\* the dicts handed to Transaction.validate: empty, the outputs of TxMint, of
\* TxFromNothing, and output (1, 0) guarded by lambda x: x[0]
CallUtxoSets ==
    {EmptyDict,
     InsertOutputs(EmptyDict, TxMint),
     InsertOutputs(EmptyDict, TxFromNothing),
     [key \in {<<1, 0>>} |-> Output("first", 60)]}

ValidateCalls ==
    {[NoCall EXCEPT !.fn = "validate", !.tx = tx, !.utxos = utxos] :
        tx \in CallTxs, utxos \in CallUtxoSets}

\* maxCoinsToCreate: one under the chain's cap, the cap, one over
MintCaps == {maxMintCoinsPerTx - 1, maxMintCoinsPerTx, maxMintCoinsPerTx + 1}

MintCalls ==
    {[NoCall EXCEPT !.fn = "validateMint", !.tx = tx, !.maxMint = maxMint] :
        tx \in CallTxs, maxMint \in MintCaps}

CallInit ==
    /\ call \in MerkleCalls \cup SpendCalls \cup ValidateCalls \cup MintCalls
    /\ ret = NotReturned

\* HashableMerkleTree(leaves).calcMerkleRoot()
CallCalcMerkleRoot ==
    /\ call.fn = "calcMerkleRoot"
    /\ ~ret.done
    /\ ret' = [NotReturned EXCEPT !.done = TRUE, !.root = calcMerkleRoot(call.leaves)]
    /\ UNCHANGED <<call, chainVars, valVars, mineVars, branchVars>>

\* output.can_be_spent(satisfier)
CallCanBeSpent ==
    /\ call.fn = "can_be_spent"
    /\ ~ret.done
    /\ ret' = [NotReturned EXCEPT !.done = TRUE,
                                  !.value = can_be_spent(call.output, call.satisfier)]
    /\ UNCHANGED <<call, chainVars, valVars, mineVars, branchVars>>

\* tx.validate(utxos)
CallTxValidate ==
    /\ call.fn = "validate"
    /\ ~ret.done
    /\ ret' = [NotReturned EXCEPT !.done = TRUE, !.ok = TxValidate(call.tx, call.utxos)]
    /\ UNCHANGED <<call, chainVars, valVars, mineVars, branchVars>>

\* tx.validateMint(maxMint)
CallValidateMint ==
    /\ call.fn = "validateMint"
    /\ ~ret.done
    /\ ret' = [NotReturned EXCEPT !.done = TRUE,
                                  !.ok = validateMint(call.tx, call.maxMint)]
    /\ UNCHANGED <<call, chainVars, valVars, mineVars, branchVars>>

InitCalls == CallInit /\ ChainIdle /\ ValIdle /\ MineIdle /\ BranchIdle

NextCalls == CallCalcMerkleRoot \/ CallCanBeSpent \/ CallTxValidate \/ CallValidateMint

SpecCalls == InitCalls /\ [][NextCalls]_vars

----------------------------------------------------------------------------
(* Properties of the Merkle tree *)

\* one level up: adjacent hashes paired left to right, a last hash without a
\* partner paired with 0
PairUp(level) ==
    [k \in 1..((Len(level) + 1) \div 2) |->
        Sha256Pair(level[2 * k - 1], IF 2 * k <= Len(level) THEN level[2 * k] ELSE 0)]

RECURSIVE MerkleReference(_)
MerkleReference(leaves) ==
    IF leaves = <<>> THEN 0
    ELSE IF Len(leaves) = 1 THEN leaves[1]
    ELSE MerkleReference(PairUp(leaves))

Returned(fn) == ret.done /\ call.fn = fn

\* C11: calcMerkleRoot equals the reference definition for every sequence of leaf
\* hashes: 0 for the empty sequence, the leaf itself for a single leaf, otherwise
\* levels of pairs H(left, right) taken left to right with an unpaired last hash
\* paired with 0 and never with itself; for [a, b, c] the root is
\* H(H(a, b), H(c, 0)).
C11_MerkleRoot ==
    Returned("calcMerkleRoot") =>
        LET leaves == call.leaves
        IN  /\ ret.root = MerkleReference(leaves)
            /\ Len(leaves) = 0 => ret.root = 0
            /\ Len(leaves) = 1 => ret.root = leaves[1]
            /\ Len(leaves) = 3 =>
                  ret.root = Sha256Pair(Sha256Pair(leaves[1], leaves[2]),
                                        Sha256Pair(leaves[3], 0))

\* C11's case: the root of three leaves, where padding with a copy of the third
\* leaf would have given another root
C11_Witness ==
    /\ Returned("calcMerkleRoot")
    /\ Len(call.leaves) = 3
    /\ ret.root = Sha256Pair(Sha256Pair(call.leaves[1], call.leaves[2]),
                             Sha256Pair(call.leaves[3], 0))
    /\ ret.root # Sha256Pair(Sha256Pair(call.leaves[1], call.leaves[2]),
                             Sha256Pair(call.leaves[3], call.leaves[3]))

----------------------------------------------------------------------------
(* Properties of can_be_spent, Transaction.validate and validateMint *)

\* the key an input names
KeyOf(inp) == <<inp.txHash, inp.txIdx>>

\* the predicate of the output is absent, or returns exactly the boolean True
GrantedExactly(output, satisfier) ==
    \/ output.constraint = "None"
    \/ CallConstraint(output.constraint, satisfier) = "True"

\* the caller's reading of can_be_spent's result (`if not utxo.can_be_spent(...)`)
Grants(output, satisfier) == Truthy(can_be_spent(output, satisfier))

\* C12: can_be_spent grants spending only when the predicate is absent or returns
\* exactly the boolean True; False, an exception or any other value, truthy ones
\* included, is not spendable, so Transaction.validate accepts no input guarded
\* by such a predicate.
C12_FailClosed ==
    /\ Returned("can_be_spent") =>
          (Truthy(ret.value) <=> GrantedExactly(call.output, call.satisfier))
    /\ (Returned("validate") /\ ret.ok /\ ~call.tx.inputsIsNone) =>
          \A k \in DOMAIN call.tx.inputs :
              LET utxo_key == KeyOf(call.tx.inputs[k])
              IN  utxo_key \in DOMAIN call.utxos =>
                      GrantedExactly(call.utxos[utxo_key], call.tx.inputs[k].satisfier)

RECURSIVE ReferencedAmounts(_, _)
\* the sum of the amounts of the entries the inputs reference, input by input
ReferencedAmounts(inputs, utxos) ==
    IF Len(inputs) = 0 THEN 0
    ELSE utxos[KeyOf(inputs[1])].amount + ReferencedAmounts(Tail(inputs), utxos)

\* every input names a key of utxos whose entry grants spending
InputsSpendable(tx, utxos) ==
    \A k \in DOMAIN tx.inputs :
        /\ KeyOf(tx.inputs[k]) \in DOMAIN utxos
        /\ Grants(utxos[KeyOf(tx.inputs[k])], tx.inputs[k].satisfier)

\* C13: Transaction.validate(utxoSet) is true for a transaction with inputs
\* absent; with inputs present it is true exactly if every input's key is in
\* utxoSet, the entry it names can be spent with the input's satisfier, and the
\* sum of the named entries' amounts is at least the sum of the output amounts,
\* an absent or empty output list and an empty input list counting as 0.
C13_TransactionValidate ==
    Returned("validate") =>
        IF call.tx.inputsIsNone THEN ret.ok
        ELSE ret.ok <=>
                /\ InputsSpendable(call.tx, call.utxos)
                /\ ReferencedAmounts(call.tx.inputs, call.utxos)
                      >= SumAmounts(call.tx.outputs)

\* two inputs of the transaction name the same key
HasDuplicateInputs(tx) ==
    \E i \in DOMAIN tx.inputs : \E j \in DOMAIN tx.inputs :
        i < j /\ KeyOf(tx.inputs[i]) = KeyOf(tx.inputs[j])

\* C14: Transaction.validate returns False when two inputs of the transaction
\* name the same key, so no entry's amount is counted twice in one call.
C14_DuplicateInputs ==
    (Returned("validate") /\ HasDuplicateInputs(call.tx)) => ~ret.ok

----------------------------------------------------------------------------
(* One branch of a chain: blocks extend the last accepted block, each       *)
(* validated against the snapshot of its parent as Blockchain.extend does.  *)

\* number of blocks of the branch after genesis
MaxBranch == 3

\* the transaction lists of the blocks offered to the branch: none, or a coinbase
\* followed by at most one transaction of TxPool
BranchTxLists ==
    {<<>>} \cup
    {<<coinbase>> \o rest :
        coinbase \in {TxMint, TxMintNothing},
        rest \in {<<>>, <<TxInflate>>, <<TxFromNothing>>, <<TxSpendFromNothing>>}}

\* a block with these transactions, mined for a target every hash meets
BranchBlock(txs) == Block(0, txs, 2 * HashSpace, 0)

\* genesis: no blocks after it, utxo_sets[genesis_hash] = {}
BranchInit ==
    /\ branch = <<>>
    /\ snapshot = EmptyDict

\* Blockchain.extend(block) for a block on the last block of the branch:
\* `new_utxos = block.validate(parent_utxos, maxMintCoinsPerTx)`, False without a
\* change if that is None, otherwise the block is stored with new_utxos
ExtendBranch(txs) ==
    /\ Len(branch) < MaxBranch
    /\ LET new_utxos == validate(BranchBlock(txs), snapshot, maxMintCoinsPerTx)
       IN  IF ~new_utxos.valid
           THEN UNCHANGED <<branch, snapshot>>
           ELSE /\ branch' = Append(branch, txs)
                /\ snapshot' = new_utxos.utxos
    /\ UNCHANGED <<chainVars, valVars, mineVars, callVars>>

InitBranch == BranchInit /\ ChainIdle /\ ValIdle /\ MineIdle /\ CallIdle

NextBranch == \E txs \in BranchTxLists : ExtendBranch(txs)

SpecBranch == InitBranch /\ [][NextBranch]_vars

----------------------------------------------------------------------------
(* Properties of the UTXO snapshots along a branch *)

\* a transaction of the last block of the branch or of one of its ancestors
\* creates the key
CreatedOnBranch(key) ==
    \E b \in DOMAIN branch : \E i \in DOMAIN branch[b] :
        key \in OutputKeys(branch[b][i])

\* an input of a transaction of the last block of the branch or of one of its
\* ancestors names the key
ReferencedOnBranch(key) ==
    \E b \in DOMAIN branch : \E i \in DOMAIN branch[b] :
        \E k \in DOMAIN branch[b][i].inputs : KeyOf(branch[b][i].inputs[k]) = key

\* C16: every key of an accepted block's UTXO snapshot was created by the outputs
\* of a transaction of the block or of an ancestor, and no input of a transaction
\* of the block or of an ancestor names it: an output consumed on a branch is
\* never spendable again on it, even if a transaction of the same hash is
\* included again.
C16_SnapshotInvariant ==
    \A key \in DOMAIN snapshot :
        CreatedOnBranch(key) /\ ~ReferencedOnBranch(key)

RECURSIVE SnapshotAt(_)
\* the UTXO snapshot of the k-th block of the branch (0: genesis)
SnapshotAt(k) ==
    IF k = 0 THEN EmptyDict
    ELSE validate(BranchBlock(branch[k]), SnapshotAt(k - 1), maxMintCoinsPerTx).utxos

RECURSIVE TotalOver(_, _)
TotalOver(utxos, keys) ==
    IF keys = {} THEN 0
    ELSE LET key == CHOOSE x \in keys : TRUE
         IN  utxos[key].amount + TotalOver(utxos, keys \ {key})

\* the sum of the amounts of a snapshot
Total(utxos) == TotalOver(utxos, DOMAIN utxos)

\* C18: the amounts in the UTXO snapshot of an accepted block sum to at most the
\* sum in its parent's snapshot plus maxMintCoinsPerTx, hence to at most the
\* block's height times maxMintCoinsPerTx.
C18_BoundedSupply ==
    /\ snapshot = SnapshotAt(Len(branch))
    /\ \A k \in DOMAIN branch :
          /\ Total(SnapshotAt(k)) <= Total(SnapshotAt(k - 1)) + maxMintCoinsPerTx
          /\ Total(SnapshotAt(k)) <= k * maxMintCoinsPerTx

----------------------------------------------------------------------------
(* Order of the transactions inside a block *)

\* input k of transaction i spends an output that a transaction before it in the
\* block creates and the parent snapshot does not hold
SpendsEarlier(txs, i, k, parent) ==
    /\ InputKey(txs[i], k) \notin DOMAIN parent
    /\ \E j \in 1..(i - 1) : InputKey(txs[i], k) \in OutputKeys(txs[j])

\* input k of transaction i spends an output that only transactions after it in
\* the block create
SpendsOnlyLater(txs, i, k, parent) ==
    /\ InputKey(txs[i], k) \notin RunningKeys(txs, i, parent)
    /\ \E j \in i..Len(txs) : InputKey(txs[i], k) \in OutputKeys(txs[j])

\* C17: Block.validate checks inputs against the running view: a transaction may
\* spend an output that a transaction before it in the same block creates (the
\* block is accepted and the output is not in the resulting snapshot), and a
\* block with a transaction spending an output that only a later transaction of
\* the block creates is rejected.
C17_OrderInsideBlock ==
    vResult.status # "pending" =>
        /\ (\E i \in 2..Len(vTxs) : \E k \in 1..Len(vTxs[i].inputs) :
                SpendsOnlyLater(vTxs, i, k, vUtxos))
              => vResult.status = "invalid"
        /\ vResult.status = "valid" =>
              \A i \in 2..Len(vTxs) : \A k \in 1..Len(vTxs[i].inputs) :
                  SpendsEarlier(vTxs, i, k, vUtxos) =>
                      InputKey(vTxs[i], k) \notin DOMAIN vResult.utxos
        /\ (~PowRejected(vBlock) /\ vTxs \in {<<TxMint, TxInflate>>,
                                              <<TxMintNothing, TxFromNothing,
                                                TxSpendFromNothing>>})
              => vResult.status = "valid"

\* C17's case: an accepted block in which a transaction spends an output of an
\* earlier transaction of the block, and the output is gone from the result
C17_Witness ==
    /\ vResult.status = "valid"
    /\ \E i \in 2..Len(vTxs) : \E k \in 1..Len(vTxs[i].inputs) :
          /\ SpendsEarlier(vTxs, i, k, vUtxos)
          /\ InputKey(vTxs[i], k) \notin DOMAIN vResult.utxos

----------------------------------------------------------------------------
(* The tip over a sequence of extend calls, and blocks submitted again *)

\* the cumulative work of the block getTip returns
TipWork == getCumulativeWork(getTip)

\* the cumulative work of the block of the last extend call
SubmittedWork == getCumulativeWork(extHash)

\* the place of a stored block in the order of acceptance (cumulative_work gets
\* its entry when the block is first accepted)
AcceptedAs(hh) == CHOOSE i \in DOMAIN cumulative_work : cumulative_work[i][1] = hh

\* of the stored blocks of greatest cumulative work, getTip is the one accepted
\* first
TipIsEarliestOfGreatest ==
    \A hh \in DOMAIN blocks :
        getCumulativeWork(hh) = TipWork => AcceptedAs(getTip) <= AcceptedAs(hh)

\* C19: among stored blocks of greatest cumulative work getTip returns the one
\* accepted first; a successful extend changes what getTip returns only if the new
\* block's cumulative work is strictly greater than the tip's before, and the
\* tip's cumulative work never decreases.
C19_TieBreak ==
    [][/\ TipIsEarliestOfGreatest'
       /\ extResult' = "True" =>
             (getTip' # getTip => (getTip' = extHash' /\ SubmittedWork' > TipWork))
       /\ TipWork' >= TipWork]_vars

\* C19's case: extend has accepted a block whose cumulative work equals the
\* tip's, and the tip is still the block accepted before it
C19_Witness ==
    /\ pc = "returned"
    /\ extResult = "True"
    /\ extHash # getTip
    /\ SubmittedWork = TipWork
    /\ AcceptedAs(getTip) < AcceptedAs(extHash)

\* no hash is listed twice at a height
ListedOnce ==
    \A k \in DOMAIN block_heights :
        \A i \in DOMAIN block_heights[k] : \A j \in DOMAIN block_heights[k] :
            block_heights[k][i] = block_heights[k][j] => i = j

\* C20: extend with a block that was already accepted leaves the chain as it
\* was: the stored blocks, each block's cumulative work and UTXO snapshot are
\* the same, and getBlocksAtHeight lists the block exactly once.
C20_ResubmissionIdempotent ==
    [][(pc = "idle" /\ extHash' \in DOMAIN blocks)
          => /\ UNCHANGED <<blocks, block_heights, cumulative_work, utxo_sets>>
             /\ ListedOnce']_vars

====
